---- MODULE Spec2Model ----
(***************************************************************************)
(* Model of instrument/resource_monitor/resource_monitor.py:               *)
(* class ResourceMonitorThread (a threading.Thread subclass).              *)
(*                                                                         *)
(* Two executors share the object: the foreground caller (start(),         *)
(* record_*(), signal_terminate(), join()) and the monitor thread (run()). *)
(* Every statement that reads or writes a shared field is its own step, so *)
(* that every interleaving of the two executors is explored.               *)
(*                                                                         *)
(* Time is counted in integer units; the intervals are integers.  The      *)
(* clock advances by signal_interval_second on each completed sleep and by *)
(* one on each Tick (time passing while the foreground works).             *)
(* The metrics provider (psutil) is abstracted to its two outcomes:        *)
(* as_dict() returns, or the sample raises.  An exception raised by a call *)
(* ends the call; print(json.dumps(self.summary)) writes to the standard   *)
(* output, which is not part of the state.                                 *)
(***************************************************************************)
EXTENDS Integers, Sequences, FiniteSets, TLC

\* the value None of an optional numeric argument
None == -1

\* ---- bounds of the model ----
\* a run of the loop with few reports and a clock that ticks (Spec)
MaxSleeps   == 2    \* completed time.sleep() calls of the loop
FewReports  == 1    \* record_*() calls of the foreground
MaxJoins    == 1    \* join() calls of the foreground
MaxTicks    == 1    \* clock ticks besides the loop's sleeps
\* many reports during a short run of the loop (SpecReports)
FewSleeps   == 2
MaxReports  == 3
\* a short run under fair scheduling (FairSpec)
FairSleeps  == 2
\* a long run of the loop (SpecCadence)
CadenceSleeps == 5
\* repeated join() calls (SpecJoins)
TwoJoins    == 2
\* two reports during one sample of the loop (SpecTorn)
TornReports == 2

\* history: whether the run keeps the history of the counters' values
LongRun == [sleeps |-> MaxSleeps, reports |-> FewReports, joins |-> MaxJoins,
            ticks |-> MaxTicks, history |-> FALSE]
ManyReports == [sleeps |-> FewSleeps, reports |-> MaxReports,
                joins |-> MaxJoins, ticks |-> MaxTicks, history |-> FALSE]
ShortRun == [sleeps |-> FairSleeps, reports |-> FewReports,
             joins |-> MaxJoins, ticks |-> MaxTicks, history |-> FALSE]

CadenceRun == [sleeps |-> CadenceSleeps, reports |-> FewReports,
               joins |-> MaxJoins, ticks |-> MaxTicks, history |-> FALSE]
JoinsRun == [sleeps |-> FairSleeps, reports |-> FewReports,
             joins |-> TwoJoins, ticks |-> MaxTicks, history |-> FALSE]
TornRun == [sleeps |-> FewSleeps, reports |-> TornReports,
            joins |-> MaxJoins, ticks |-> MaxTicks, history |-> TRUE]

\* ---- inputs ----
\* (sample_interval_second, signal_interval_second) of the constructor:
\* the default, a divisor, and a signal interval that does not divide
Intervals       == {<<2, None>>, <<2, 1>>, <<3, 2>>}
DefaultInterval == {<<2, None>>}
\* the same, and a signal interval whose nearest multiple lies below the
\* sample interval
CadenceIntervals == Intervals \cup {<<4, 3>>}
Timeouts        == {None, 1}       \* join(timeout)
ByteCounts      == {100}           \* num_bytes of record_download/upload

VARIABLES
    sample_interval_second,          \* self.sample_interval_second
    signal_interval_second,          \* self.signal_interval_second
    summary,                         \* self.summary
    cloud_service_invocation_count,  \* self.cloud_service_invocation_count
    bytes_download,                  \* self.bytes_download
    bytes_upload,                    \* self.bytes_upload
    records,                         \* self.records (the list object)
    _running,                        \* self._running
    thread_pc,                       \* position of the monitor thread
    elapsed,                         \* local of run()
    sample,                          \* local of sample_utilization() in the loop
    fg_pc,                           \* position of the foreground caller
    fg_call,                         \* the foreground call in progress
    sleeps,                          \* completed sleeps of the loop
    ticks,                           \* clock ticks besides the sleeps
    num_reports,                     \* record_*() calls made
    reported,                        \* sums of the amounts passed to record_*()
    joins,                           \* join() calls made
    returned,                        \* timeouts of the join() calls that returned
    sleepsAtSignal,                  \* sleeps when signal_terminate() first ran
    recordsAtSignal,                 \* len(records) at that moment
    failed,                          \* where a provider read has failed
    history,                         \* the values the three counters have held
                                     \* (kept when budget.history)
    budget                           \* how far this run is explored

vars == <<sample_interval_second, signal_interval_second, summary,
          cloud_service_invocation_count, bytes_download, bytes_upload,
          records, _running, thread_pc, elapsed, sample, fg_pc, fg_call,
          sleeps, ticks, num_reports, reported, joins, returned,
          sleepsAtSignal, recordsAtSignal, failed, history, budget>>

config_vars  == <<sample_interval_second, signal_interval_second, budget>>
counter_vars == <<cloud_service_invocation_count, bytes_download, bytes_upload>>
loop_vars    == <<thread_pc, elapsed, sample, sleeps>>
fg_vars      == <<fg_pc, fg_call>>
report_vars  == <<num_reports, reported>>
join_vars    == <<joins, returned>>
signal_vars  == <<sleepsAtSignal, recordsAtSignal>>

\* self.create_time = self.process_util.create_time()
create_time == 0

\* time.time()
now == create_time + ticks + sleeps * signal_interval_second

\* threading.Thread.is_alive()
is_alive == thread_pc \notin {"initial", "done", "crashed"}

NoCall   == [op |-> "none"]
NoSample == [download |-> 0, upload |-> 0]

\* self.summary = str()
EmptyStr == [type |-> "str"]

\* sample_utilization(): the dict built from the counters and the clock
sample_utilization(dl, ul, trig, t) ==
    [download |-> dl, upload |-> ul, cloud_service_trigger |-> trig,
     elapsed_time |-> t - create_time]

\* `if signal_interval_second is None` in __init__
DefaultSignal(sample_s, signal_s) ==
    IF signal_s = None THEN sample_s ELSE signal_s

\* mutants of `while self._running`: a loop that never looks at the flag, and
\* a loop that leaves at once
LoopContinuesForever(flag) == TRUE

LoopContinuesNever(flag) == FALSE

\* `while self._running`
LoopContinues(flag) == flag

\* mutants of the sampling test: no test at all, and `>` for `>=`
ShouldSampleAlways(e, interval) == TRUE

ShouldSampleStrict(e, interval) == e > interval

\* `if elapsed >= self.sample_interval_second`
ShouldSample(e, interval) == e >= interval

\* mutant of `elapsed = 0` at the head of run(): the first sample is due at
\* once
InitialElapsedDue(interval) == interval

\* `elapsed = 0` at the head of run()
InitialElapsed(interval) == 0

\* mutant of `elapsed = 0` after an append: the time over the sample interval
\* is carried into the next period
ResetElapsedCarry(e, interval) == e - interval

\* `elapsed = 0` after an append
ResetElapsed(e, interval) == 0

\* mutant of self.records.append(): the new snapshot is put in front
AppendRecordFront(recs, s) == <<s>> \o recs

\* self.records.append()
AppendRecord(recs, s) == Append(recs, s)

\* mutant of `+=`: `=`
AddLost(counter, n) == n

\* `+=` of the record_* methods
Add(counter, n) == counter + n

\* mutant of super().join(): a join that does not block
JoinUnblockedAlways(timeout, alive) == TRUE

\* super().join(timeout): returns when the thread has ended, or when the
\* timeout has run out
JoinUnblocked(timeout, alive) == (timeout # None) \/ ~alive

\* mutant of super().join(): no check that the thread was started
JoinRaisesNever(pc) == FALSE

\* super().join() raises RuntimeError("cannot join thread before it is
\* started")
JoinRaises(pc) == pc = "initial"

\* mutant of the summary: final_sample keeps a reference to the live
\* download counter instead of its value
SummaryValueLive ==
    IF summary.type = "str" THEN summary
    ELSE [type |-> "dict", runtime_samples |-> records,
          final_sample |-> [summary.final_sample EXCEPT
                               !.download = bytes_download]]

\* what self.summary denotes for its reader: runtime_samples is the list
\* object self.records itself, final_sample is the dict built in join()
SummaryValue ==
    IF summary.type = "str" THEN summary
    ELSE [type |-> "dict", runtime_samples |-> records,
          final_sample |-> summary.final_sample]

\* ---- __init__ ----
Construct(b, intervals) ==
    /\ budget = b
    /\ \E i \in intervals :
          /\ sample_interval_second = i[1]
          /\ signal_interval_second = DefaultSignal(i[1], i[2])
    /\ summary = EmptyStr
    /\ cloud_service_invocation_count = 0
    /\ bytes_download = 0
    /\ bytes_upload = 0
    /\ records = <<>>
    /\ _running = TRUE
    /\ thread_pc = "initial"
    /\ elapsed = 0
    /\ sample = NoSample
    /\ fg_pc = "idle"
    /\ fg_call = NoCall
    /\ sleeps = 0
    /\ ticks = 0
    /\ num_reports = 0
    /\ reported = [download |-> 0, upload |-> 0, cloud_service_trigger |-> 0]
    /\ joins = 0
    /\ returned = {}
    /\ sleepsAtSignal = -1
    /\ recordsAtSignal = -1
    /\ failed = [loop |-> FALSE, join |-> FALSE]
    /\ history = {<<0, 0, 0>>}

Init == Construct(LongRun, Intervals)

InitReports == Construct(ManyReports, DefaultInterval)

InitFair == Construct(ShortRun, Intervals)

InitCadence == Construct(CadenceRun, CadenceIntervals)

InitJoins == Construct(JoinsRun, DefaultInterval)

InitTorn == Construct(TornRun, DefaultInterval)

\* ---- foreground: Thread.start() ----
\* starts run() (elapsed = 0); a second start() raises RuntimeError and
\* changes nothing
Start ==
    /\ fg_pc = "idle"
    /\ IF thread_pc = "initial"
         THEN /\ thread_pc' = "check"
              /\ elapsed' = InitialElapsed(sample_interval_second)
         ELSE UNCHANGED <<thread_pc, elapsed>>
    /\ UNCHANGED <<config_vars, summary, counter_vars, records, _running,
                   sample, sleeps, fg_vars, ticks, report_vars, join_vars,
                   signal_vars, failed, history>>

\* ---- foreground: record_service_invocation / record_download / record_upload
\* `x += n` is a load and an add, then a store
RecordLoad(field, n) ==
    /\ fg_pc = "idle"
    /\ num_reports < budget.reports
    /\ fg_pc' = "store"
    /\ fg_call' = [op |-> field,
                   value |-> CASE field = "cloud_service_invocation_count" ->
                                     Add(cloud_service_invocation_count, n)
                               [] field = "bytes_download" ->
                                     Add(bytes_download, n)
                               [] field = "bytes_upload" ->
                                     Add(bytes_upload, n)]
    /\ num_reports' = num_reports + 1
    /\ reported' =
         CASE field = "cloud_service_invocation_count" ->
                [reported EXCEPT !.cloud_service_trigger = @ + n]
           [] field = "bytes_download" -> [reported EXCEPT !.download = @ + n]
           [] field = "bytes_upload" -> [reported EXCEPT !.upload = @ + n]
    /\ UNCHANGED <<config_vars, summary, counter_vars, records, _running,
                   loop_vars, ticks, join_vars, signal_vars, failed, history>>

record_service_invocation == RecordLoad("cloud_service_invocation_count", 1)

record_download == \E n \in ByteCounts : RecordLoad("bytes_download", n)

record_upload == \E n \in ByteCounts : RecordLoad("bytes_upload", n)

RecordStore ==
    /\ fg_pc = "store"
    /\ cloud_service_invocation_count' =
         IF fg_call.op = "cloud_service_invocation_count"
           THEN fg_call.value ELSE cloud_service_invocation_count
    /\ bytes_download' =
         IF fg_call.op = "bytes_download" THEN fg_call.value ELSE bytes_download
    /\ bytes_upload' =
         IF fg_call.op = "bytes_upload" THEN fg_call.value ELSE bytes_upload
    /\ fg_pc' = "idle"
    /\ fg_call' = NoCall
    /\ history' = IF budget.history
                     THEN history \cup {<<bytes_download', bytes_upload',
                                          cloud_service_invocation_count'>>}
                     ELSE history
    /\ UNCHANGED <<config_vars, summary, records, _running, loop_vars, ticks,
                   report_vars, join_vars, signal_vars, failed>>

\* ---- foreground: signal_terminate() ----
signal_terminate ==
    /\ fg_pc = "idle"
    /\ _running' = FALSE
    /\ sleepsAtSignal' = IF sleepsAtSignal = -1 THEN sleeps ELSE sleepsAtSignal
    /\ recordsAtSignal' =
         IF sleepsAtSignal = -1 THEN Len(records) ELSE recordsAtSignal
    /\ UNCHANGED <<config_vars, summary, counter_vars, records, loop_vars,
                   fg_vars, ticks, report_vars, join_vars, failed, history>>

\* ---- foreground: join(timeout) ----
\* self.summary = dict(runtime_samples=self.records,
\*                     final_sample=self.sample_utilization())
\* captured_after (the number of records captured before the final sample)
\* and flag_cleared (signal_terminate() ran before it) are not fields of the
\* dict
JoinSampleOk(timeout) ==
    /\ fg_pc = "idle"
    /\ joins < budget.joins
    /\ joins' = joins + 1
    /\ summary' = [type |-> "dict",
                   final_sample |->
                     sample_utilization(bytes_download, bytes_upload,
                         cloud_service_invocation_count, now),
                   captured_after |-> Len(records),
                   flag_cleared |-> ~_running]
    /\ fg_pc' = "join_wait"
    /\ fg_call' = [op |-> "join", timeout |-> timeout]
    /\ failed' = [failed EXCEPT !.join = FALSE]
    /\ UNCHANGED <<config_vars, counter_vars, records, _running, loop_vars,
                   ticks, report_vars, returned, signal_vars, history>>

\* mutant of the failing final sample: the exception is swallowed and join()
\* goes on to wait for the thread
JoinSampleFailsSwallowed(timeout) ==
    /\ fg_pc = "idle"
    /\ joins < budget.joins
    /\ joins' = joins + 1
    /\ failed' = [failed EXCEPT !.join = TRUE]
    /\ fg_pc' = "join_wait"
    /\ fg_call' = [op |-> "join", timeout |-> timeout]
    /\ UNCHANGED <<config_vars, summary, counter_vars, records, _running,
                   loop_vars, ticks, report_vars, returned, signal_vars,
                   history>>

\* the provider read of the final sample fails: sample_utilization() raises,
\* which ends join() before self.summary is assigned
JoinSampleFails(timeout) ==
    /\ fg_pc = "idle"
    /\ joins < budget.joins
    /\ joins' = joins + 1
    /\ failed' = [failed EXCEPT !.join = TRUE]
    /\ UNCHANGED <<config_vars, summary, counter_vars, records, _running,
                   loop_vars, fg_vars, ticks, report_vars, returned,
                   signal_vars, history>>

JoinSample ==
    \E timeout \in Timeouts : JoinSampleOk(timeout) \/ JoinSampleFails(timeout)

\* mutant of the wait: the final sample is taken again, and the summary
\* assigned again, after the wait
JoinWaitResample ==
    /\ fg_pc = "join_wait"
    /\ IF JoinRaises(thread_pc)
         THEN UNCHANGED <<returned, summary>>
         ELSE /\ JoinUnblocked(fg_call.timeout, is_alive)
              /\ returned' = returned \cup {fg_call.timeout}
              /\ summary' = [type |-> "dict",
                             final_sample |->
                               sample_utilization(bytes_download, bytes_upload,
                                   cloud_service_invocation_count, now),
                             captured_after |-> Len(records),
                             flag_cleared |-> ~_running]
    /\ fg_pc' = "idle"
    /\ fg_call' = NoCall
    /\ UNCHANGED <<config_vars, counter_vars, records, _running, loop_vars,
                   ticks, report_vars, joins, signal_vars, failed, history>>

\* super().join(timeout=timeout); if self.output: print(json.dumps(...))
JoinWait ==
    /\ fg_pc = "join_wait"
    /\ IF JoinRaises(thread_pc)
         THEN UNCHANGED returned
         ELSE /\ JoinUnblocked(fg_call.timeout, is_alive)
              /\ returned' = returned \cup {fg_call.timeout}
    /\ fg_pc' = "idle"
    /\ fg_call' = NoCall
    /\ UNCHANGED <<config_vars, summary, counter_vars, records, _running,
                   loop_vars, ticks, report_vars, joins, signal_vars, failed, history>>

\* ---- monitor thread: run() ----
\* `while self._running:` and `if elapsed >= self.sample_interval_second:`
LoopCheck ==
    /\ thread_pc = "check"
    /\ IF LoopContinues(_running)
         THEN /\ sleeps < budget.sleeps
              /\ thread_pc' = IF ShouldSample(elapsed, sample_interval_second)
                                THEN "sample" ELSE "sleep"
         ELSE thread_pc' = "done"
    /\ UNCHANGED <<config_vars, summary, counter_vars, records, _running,
                   elapsed, sample, sleeps, fg_vars, ticks, report_vars,
                   join_vars, signal_vars, failed, history>>

\* sample_utilization() in the loop: as_dict(), then 'download'
LoopSampleReads ==
    /\ thread_pc = "sample"
    /\ sample' = [sample EXCEPT !.download = bytes_download]
    /\ thread_pc' = "sample_upload"
    /\ UNCHANGED <<config_vars, summary, counter_vars, records, _running,
                   elapsed, sleeps, fg_vars, ticks, report_vars, join_vars,
                   signal_vars, failed, history>>

\* mutant of the failing periodic sample: the exception is swallowed and a
\* zero-filled snapshot is recorded
LoopSampleFailsZeroFill ==
    /\ thread_pc = "sample"
    /\ failed' = [failed EXCEPT !.loop = TRUE]
    /\ records' = Append(records, sample_utilization(0, 0, 0, create_time))
    /\ thread_pc' = "sleep"
    /\ UNCHANGED <<config_vars, summary, counter_vars, _running, elapsed,
                   sample, sleeps, fg_vars, ticks, report_vars, join_vars,
                   signal_vars, history>>

\* the provider read of a periodic sample fails: the exception ends run()
LoopSampleFails ==
    /\ thread_pc = "sample"
    /\ failed' = [failed EXCEPT !.loop = TRUE]
    /\ thread_pc' = "crashed"
    /\ UNCHANGED <<config_vars, summary, counter_vars, records, _running,
                   elapsed, sample, sleeps, fg_vars, ticks, report_vars,
                   join_vars, signal_vars, history>>

LoopSampleBegin == LoopSampleReads \/ LoopSampleFails

\* mutant of the read of the upload counter: the counter is read and cleared
LoopSampleUploadDrain ==
    /\ thread_pc = "sample_upload"
    /\ sample' = [sample EXCEPT !.upload = bytes_upload]
    /\ bytes_upload' = 0
    /\ thread_pc' = "sample_finish"
    /\ UNCHANGED <<config_vars, summary, cloud_service_invocation_count,
                   bytes_download, records, _running, elapsed, sleeps,
                   fg_vars, ticks, report_vars, join_vars, signal_vars,
                   failed, history>>

\* 'upload': self.bytes_upload
LoopSampleUpload ==
    /\ thread_pc = "sample_upload"
    /\ sample' = [sample EXCEPT !.upload = bytes_upload]
    /\ thread_pc' = "sample_finish"
    /\ UNCHANGED <<config_vars, summary, counter_vars, records, _running,
                   elapsed, sleeps, fg_vars, ticks, report_vars, join_vars,
                   signal_vars, failed, history>>

\* 'cloud-service-trigger', 'elapsed_time'; self.records.append(); elapsed = 0
LoopSampleFinish ==
    /\ thread_pc = "sample_finish"
    /\ records' = AppendRecord(records,
                      sample_utilization(sample.download, sample.upload,
                          cloud_service_invocation_count, now))
    /\ elapsed' = ResetElapsed(elapsed, sample_interval_second)
    /\ sample' = NoSample
    /\ thread_pc' = "sleep"
    /\ UNCHANGED <<config_vars, summary, counter_vars, _running, sleeps,
                   fg_vars, ticks, report_vars, join_vars, signal_vars, failed, history>>

\* time.sleep(self.signal_interval_second); elapsed += ...
LoopSleep ==
    /\ thread_pc = "sleep"
    /\ sleeps' = sleeps + 1
    /\ elapsed' = elapsed + signal_interval_second
    /\ thread_pc' = "check"
    /\ UNCHANGED <<config_vars, summary, counter_vars, records, _running,
                   sample, fg_vars, ticks, report_vars, join_vars,
                   signal_vars, failed, history>>

\* ---- the clock moves while the foreground works ----
Tick ==
    /\ ticks < budget.ticks
    /\ ticks' = ticks + 1
    /\ UNCHANGED <<config_vars, summary, counter_vars, records, _running,
                   loop_vars, fg_vars, report_vars, join_vars, signal_vars, failed, history>>

Loop == LoopCheck \/ LoopSampleBegin \/ LoopSampleUpload \/ LoopSampleFinish
           \/ LoopSleep

Foreground ==
    \/ Start
    \/ record_service_invocation
    \/ record_download
    \/ record_upload
    \/ RecordStore
    \/ signal_terminate
    \/ JoinSample
    \/ JoinWait

Next == Foreground \/ Loop \/ Tick

\* the same with a clock that moves only with the loop's sleeps (no guard
\* reads the clock)
NextSleepClock == Foreground \/ Loop

Spec == Init /\ [][Next]_vars

SpecReports == InitReports /\ [][NextSleepClock]_vars

SpecCadence == InitCadence /\ [][NextSleepClock]_vars

SpecJoins == InitJoins /\ [][NextSleepClock]_vars

SpecTorn == InitTorn /\ [][NextSleepClock]_vars

\* the scheduler runs the monitor thread and the joining caller
FairSpec ==
    InitFair /\ [][NextSleepClock]_vars /\ WF_vars(Loop) /\ WF_vars(JoinWait)

TypeOK ==
    /\ thread_pc \in {"initial", "check", "sample", "sample_upload",
                      "sample_finish", "sleep", "done", "crashed"}
    /\ fg_pc \in {"idle", "store", "join_wait"}
    /\ sleeps \in 0..budget.sleeps
    /\ _running \in BOOLEAN


(***************************************************************************)
(* Properties                                                              *)
(***************************************************************************)

\* signal_interval_second divides sample_interval_second
Divides == sample_interval_second % signal_interval_second = 0

\* sample_interval / signal_interval
Ratio == sample_interval_second \div signal_interval_second

\* the fields of a snapshot
SnapshotFields == {"download", "upload", "cloud_service_trigger",
                   "elapsed_time"}

\* a step of record_service_invocation / record_download / record_upload
ReportStep ==
    \/ fg_pc = "idle" /\ fg_pc' = "store"
    \/ fg_pc = "store" /\ fg_pc' = "idle"

\* C1: once a join() has returned, self.summary is a dict holding one
\* populated final_sample, whatever the number of periodic snapshots; and
\* when signal_terminate() ran before the loop had accumulated
\* elapsed >= sample_interval_second, records is empty.
C1_FinalSample ==
    /\ returned # {} =>
          /\ summary.type = "dict"
          /\ DOMAIN summary.final_sample = SnapshotFields
          /\ summary.final_sample.elapsed_time >= 0
    /\ (/\ sleepsAtSignal >= 0
        /\ sleepsAtSignal * signal_interval_second < sample_interval_second)
          => records = <<>>

C1_Witness ==
    /\ None \in returned
    /\ thread_pc = "done"
    /\ sleepsAtSignal >= 1
    /\ sleepsAtSignal * signal_interval_second < sample_interval_second
    /\ records = <<>>
    /\ summary.type = "dict"

\* C2: once a join() called after signal_terminate() has returned after
\* waiting for the thread, every snapshot of records was captured before
\* final_sample, and elapsed_time does not decrease along records followed by
\* final_sample.
C2_Chronological ==
    (None \in returned /\ thread_pc = "done" /\ summary.flag_cleared) =>
       /\ summary.captured_after = Len(records)
       /\ \A i \in 1..Len(records) :
             /\ records[i].elapsed_time <= summary.final_sample.elapsed_time
             /\ \A j \in 1..i :
                   records[j].elapsed_time <= records[i].elapsed_time

\* C3 (as claimed): a join() that has returned did so after the loop had
\* exited, whatever its timeout.
C3_ReturnsAfterLoop == returned # {} => ~is_alive

\* C3 (amended): a join() with timeout None returns only after the loop has
\* exited, and from then on nothing is appended to records.
C3_JoinNoneBlocks ==
    /\ [](None \in returned => ~is_alive)
    /\ [][(None \in returned) => records' = records]_vars

C3_Witness ==
    /\ None \in returned
    /\ thread_pc = "done"
    /\ Len(records) >= 1

\* C4: from the moment join() has built the summary, the records and the
\* final_sample it holds never change.
C4_Immutable ==
    [][(summary.type = "dict" /\ summary' = summary)
          => SummaryValue' = SummaryValue]_vars

\* C5: every record_* call adds its amount to its own counter only and no
\* update is lost (between calls each counter is the sum of the amounts
\* reported to it), the snapshot taken next by the caller carries exactly
\* these sums, and a snapshot of the loop carries sums of calls made so far.
C5_Accumulation ==
    /\ fg_pc # "store" =>
          /\ bytes_download = reported.download
          /\ bytes_upload = reported.upload
          /\ cloud_service_invocation_count = reported.cloud_service_trigger
    /\ fg_pc = "join_wait" =>
          /\ summary.final_sample.download = reported.download
          /\ summary.final_sample.upload = reported.upload
          /\ summary.final_sample.cloud_service_trigger =
                reported.cloud_service_trigger
    /\ \A i \in 1..Len(records) :
          /\ records[i].download <= reported.download
          /\ records[i].upload <= reported.upload
          /\ records[i].cloud_service_trigger <= reported.cloud_service_trigger
          /\ records[i].download % 100 = 0
          /\ records[i].upload % 100 = 0

C5_Witness ==
    /\ fg_pc = "join_wait"
    /\ thread_pc # "initial"
    /\ reported.download = 300
    /\ summary.final_sample.download = 300
    /\ summary.final_sample.upload = 0

C7_Responsive ==
    /\ [](sleepsAtSignal >= 0 => sleeps - sleepsAtSignal <= 1)
    /\ ((~_running /\ is_alive) ~> ~is_alive)
    /\ ((~_running /\ thread_pc # "initial" /\ fg_pc = "join_wait")
           ~> fg_pc = "idle")

C7_Witness ==
    /\ ~_running
    /\ thread_pc = "done"
    /\ sleeps = sleepsAtSignal + 1
    /\ signal_interval_second < sample_interval_second
    /\ None \in returned

\* C8 (as claimed): while signal_terminate() has not been called the flag is
\* true, the loop has not exited and no join() has returned.
C8_NeverReturns ==
    sleepsAtSignal = -1 =>
       /\ _running
       /\ thread_pc \notin {"done", "crashed"}
       /\ returned = {}

\* C8 (amended): while signal_terminate() has not been called the flag is
\* true and the loop has not left its while; the thread ends only by a
\* failed provider read, and a join() with timeout None returns only then.
C8_Cooperative ==
    sleepsAtSignal = -1 =>
       /\ _running
       /\ thread_pc # "done"
       /\ None \in returned => thread_pc = "crashed"

C8_Witness ==
    /\ sleepsAtSignal = -1
    /\ thread_pc = "check"
    /\ sleeps = budget.sleeps
    /\ Len(records) >= 1
    /\ fg_pc = "join_wait"
    /\ fg_call.timeout = None

\* C9: after a join() has returned, a step of a record_* call leaves the
\* summary (its records and its final_sample) as it was.
C9_NoMutation ==
    [][(returned # {} /\ ReportStep) => SummaryValue' = SummaryValue]_vars

C9_Witness ==
    /\ returned # {}
    /\ fg_pc = "idle"
    /\ summary.type = "dict"
    /\ summary.final_sample.download = 0
    /\ bytes_download = 100

\* C10 (as claimed): no join() returns on a thread that was never started,
\* and once a join() has returned no record_* call changes a counter.
C10_Rejected ==
    /\ [](thread_pc = "initial" => returned = {})
    /\ [][returned # {} =>
             <<cloud_service_invocation_count, bytes_download, bytes_upload>>'
           = <<cloud_service_invocation_count, bytes_download, bytes_upload>>]_vars

\* C10 (amended): no join() returns on a thread that was never started (the
\* call ends with RuntimeError); once a join() has returned the record_*
\* calls are still accepted and add to their counters.
C10_JoinRejected ==
    /\ [](thread_pc = "initial" => returned = {})
    /\ [][(returned # {} /\ fg_pc = "store" /\ fg_pc' = "idle") =>
             /\ bytes_upload' + bytes_download'
                  + cloud_service_invocation_count'
                > bytes_upload + bytes_download
                  + cloud_service_invocation_count
             /\ bytes_upload' = reported.upload
             /\ bytes_download' = reported.download
             /\ cloud_service_invocation_count'
                  = reported.cloud_service_trigger]_vars

C10_Witness ==
    /\ thread_pc = "initial"
    /\ joins = 1
    /\ fg_pc = "idle"
    /\ returned = {}
    /\ summary.type = "dict"

\* C11: a join() whose final sample fails on the provider read does not go on
\* to wait for the thread: the call ends in the same step with the error
\* raised to the caller, whatever the loop is doing, and the loop is left as
\* it was.
C11_FailedJoinCompletes ==
    [][(joins' = joins + 1 /\ failed'.join)
         => (/\ fg_pc' = "idle"
             /\ fg_call' = NoCall
             /\ returned' = returned
             /\ UNCHANGED <<loop_vars, _running>>)]_vars

\* the final sample failed while the loop was running and had not been
\* signalled (where a join() that waits would block); the caller is free again
C11_Witness ==
    /\ failed.join
    /\ joins = 1
    /\ fg_pc = "idle"
    /\ thread_pc = "sleep"
    /\ _running
    /\ sleepsAtSignal = -1

\* C12 (as claimed): over any sequence of caller operations, repeated join()
\* calls included, summary is assigned a Summary at most once and never
\* changes afterwards.
C12_AssignedOnce ==
    [][summary.type = "dict" => summary' = summary]_vars

\* C12 (amended): summary is assigned only by join(), once per call, in the
\* step that takes the final sample before the wait, and never by the wait,
\* the loop or the report and signal operations; every join() call whose
\* final sample succeeds assigns it, so a repeated join() replaces it.
C12_AssignedPerJoin ==
    [][/\ summary' # summary
          => /\ fg_pc = "idle"
             /\ fg_pc' = "join_wait"
             /\ joins' = joins + 1
             /\ summary'.type = "dict"
       /\ (joins' = joins + 1 /\ ~failed'.join)
          => /\ summary'.type = "dict"
             /\ summary'.captured_after = Len(records)
             /\ summary'.final_sample.elapsed_time = now]_vars

\* a second join() has taken its final sample after a first join() returned,
\* and the loop has slept in between
C12_Witness ==
    /\ joins = 2
    /\ returned # {}
    /\ fg_pc = "join_wait"
    /\ ~failed.join
    /\ summary.type = "dict"
    /\ summary.final_sample.elapsed_time > 0
    /\ sleeps > 0

\* the time between the (i-1)-th and the i-th periodic snapshot; the loop
\* starts at time 0 when no clock tick falls outside its sleeps
Period(i) ==
    records[i].elapsed_time
      - (IF i = 1 THEN 0 ELSE records[i - 1].elapsed_time)

\* the multiples of signal_interval around sample_interval
Multiples ==
    {k * signal_interval_second : k \in 1..(sample_interval_second + 1)}

Abs(x) == IF x < 0 THEN -x ELSE x

\* C13 (as claimed): when signal_interval does not divide sample_interval,
\* the time between consecutive periodic snapshots is the multiple of
\* signal_interval nearest to sample_interval.
C13_NearestMultiple ==
    ~Divides =>
      \A i \in 2..Len(records) :
        /\ Period(i) \in Multiples
        /\ \A m \in Multiples :
             Abs(Period(i) - sample_interval_second)
               <= Abs(m - sample_interval_second)

\* C13 (amended): when signal_interval does not divide sample_interval, the
\* time from the start of the loop to the first periodic snapshot, and
\* between consecutive periodic snapshots, is the smallest multiple of
\* signal_interval that is not below sample_interval.
C13_CeilingMultiple ==
    ~Divides =>
      \A i \in 1..Len(records) :
        /\ Period(i) \in Multiples
        /\ Period(i) >= sample_interval_second
        /\ Period(i) - signal_interval_second < sample_interval_second

\* two periodic snapshots with sample_interval 4 and signal_interval 3: the
\* period is 6, and the nearest multiple is 3
C13_Witness ==
    /\ sample_interval_second = 4
    /\ signal_interval_second = 3
    /\ Len(records) = 2
    /\ Period(2) = 6
    /\ sleeps = 4

CounterTriple(s) == <<s.download, s.upload, s.cloud_service_trigger>>

\* C15: the triple (download, upload, cloud_service_trigger) of every
\* snapshot in records, and of the final sample, is a triple of values that
\* the three counters held together at some instant of the run (history
\* holds every such triple).
C15_NoTornSnapshot ==
    /\ \A i \in 1..Len(records) : CounterTriple(records[i]) \in history
    /\ summary.type = "dict" => CounterTriple(summary.final_sample) \in history

\* C16: whenever records changes it changes by one snapshot appended at the
\* end, the earlier value staying as a prefix; the step is the loop's append,
\* and no step of the caller (report, signal_terminate, join) changes it.
C16_AppendOnly ==
    [][/\ records' # records
          => /\ Len(records') = Len(records) + 1
             /\ SubSeq(records', 1, Len(records)) = records
             /\ thread_pc = "sample_finish"
             /\ thread_pc' = "sleep"
             /\ UNCHANGED <<fg_vars, report_vars, join_vars, _running,
                            counter_vars, summary>>
       /\ (\/ fg_pc' # fg_pc
           \/ num_reports' # num_reports
           \/ counter_vars' # counter_vars
           \/ _running' # _running
           \/ joins' # joins
           \/ returned' # returned)
          => records' = records]_vars

\* two snapshots were appended, and the caller has reported, signalled and
\* joined
C16_Witness ==
    /\ Len(records) = 2
    /\ records[1] # records[2]
    /\ num_reports = 1
    /\ fg_pc = "idle"
    /\ ~_running
    /\ returned # {}

\* a step of sample_utilization() called by the loop, and the step of join()
\* that calls it
LoopSamples == thread_pc \in {"sample", "sample_upload", "sample_finish"}
                 /\ thread_pc' # thread_pc

JoinSamples == joins' = joins + 1

\* C17: taking a snapshot leaves the running flag, the three counters and
\* both intervals unchanged, whether the loop or join() takes it; records is
\* unchanged too, but for the one append that run() makes with the snapshot
\* the call returned.
C17_ReadOnly ==
    [][/\ (LoopSamples \/ JoinSamples)
          => UNCHANGED <<_running, cloud_service_invocation_count,
                         bytes_download, bytes_upload,
                         sample_interval_second, signal_interval_second>>
       /\ (JoinSamples \/ (LoopSamples /\ thread_pc # "sample_finish"))
          => records' = records
       /\ (LoopSamples /\ thread_pc = "sample_finish")
          => SubSeq(records', 1, Len(records)) = records]_vars

\* the loop and join() have each taken a snapshot of counters that are not
\* zero, and the counters still hold their values
C17_Witness ==
    /\ Len(records) = 1
    /\ records[1].download = 100
    /\ summary.type = "dict"
    /\ summary.final_sample.download = 100
    /\ bytes_download = 100
    /\ _running

\* C18: a provider read that fails during a periodic sample appends nothing
\* (the exception ends run(), so nothing is appended later either), and one
\* that fails during the final sample of join() leaves summary as it was: no
\* snapshot is made up in place of the failed one.
C18_FailurePropagates ==
    [][/\ (failed'.loop /\ ~failed.loop)
          => /\ records' = records
             /\ thread_pc' = "crashed"
       /\ failed.loop => (records' = records /\ thread_pc' = "crashed")
       /\ (joins' = joins + 1 /\ failed'.join)
          => /\ summary' = summary
             /\ records' = records]_vars

\* the first periodic sample failed and then the final sample failed: there
\* is no record and no summary
C18_Witness ==
    /\ failed.loop
    /\ thread_pc = "crashed"
    /\ sleeps = 1
    /\ records = <<>>
    /\ failed.join
    /\ joins = 1
    /\ summary = EmptyStr

\* C19: once signal_terminate() has cleared the flag it is never set again,
\* the loop's next test of the flag ends the loop, and at most one snapshot
\* is appended after the signal (by an iteration that was past the test).
C19_StaysCleared ==
    [][/\ ~_running => ~_running'
       /\ (~_running /\ thread_pc = "check" /\ thread_pc' # thread_pc)
          => thread_pc' = "done"
       /\ (~_running /\ records' # records)
          => /\ thread_pc = "sample_finish"
             /\ Len(records) = recordsAtSignal
       /\ recordsAtSignal' >= 0
          => Len(records') - recordsAtSignal' \in {0, 1}]_vars

\* the loop appended one snapshot after the signal and then left on its next
\* test of the flag
C19_Witness ==
    /\ ~_running
    /\ recordsAtSignal = 1
    /\ Len(records) = 2
    /\ thread_pc = "done"

====
